---- MODULE Spec2Model ----
(***************************************************************************)
(* A model of lzhasyncemailsender/aes.py: class AsyncEmailSender.          *)
(*                                                                         *)
(* The program runs on one asyncio event loop.  A coroutine runs without   *)
(* interruption until it awaits something that suspends, so every action   *)
(* below is the code between two suspension points.  The worker suspends   *)
(* in queue.get() on an empty queue and in the four network operations     *)
(* noop, connect, login and send_message; stop() suspends in quit();       *)
(* send() never suspends, because put() on an unbounded queue returns at   *)
(* once.  The relay and the SMTP client library are the environment: a     *)
(* network operation succeeds only on a handle in a state that allows it   *)
(* and may always fail, leaving the connection open (a refusal) or closed  *)
(* (a disconnect).                                                         *)
(***************************************************************************)
EXTENDS Integers, Sequences, FiniteSets, TLC

\* ------------------------------------------------------------------ bounds
MaxRequests == 2
MaxStops == 1
MaxList == 2

Addresses == {"a@x.com", "b@x.com", "c@x.com"}
Subjects == {"Hi", "Yo"}
Bodies == {"<p>hi</p>", "<b>yo</b>"}

\* --------------------------------------------------------------- constants
NoClient == 0
RetryInit == 3

VARIABLES
    queue,       \* self._queue: the pending request dicts, oldest first
    unfinished,  \* self._queue's count of items put and not yet task_done()
    running,     \* self._running
    client,      \* self._client: NoClient or the identity of the handle
    wpc,         \* where the worker task _process_queue is suspended
    retry,       \* the local variable retry of _process_queue
    cur,         \* the local variable email_data of _process_queue
    conn,        \* the aiosmtplib.SMTP objects the program still references
    created,     \* how many aiosmtplib.SMTP objects were created so far
    orphaned,    \* some connection is still open whose handle nothing references
    stops,       \* every call of stop() so far
    reqs,        \* the fate of each request dict, by its identity
    att          \* what the relay saw for the item the worker took last

vars == <<queue, unfinished, running, client, wpc, retry, cur, conn, created,
          orphaned, stops, reqs, att>>

\* ----------------------------------------------------------------- values
NoReq == [id |-> 0, to |-> "", subject |-> "", body |-> ""]

Single(a) == [isList |-> FALSE, addr |-> a, list |-> <<>>]
Multiple(l) == [isList |-> TRUE, addr |-> "", list |-> l]

AddressLists == UNION {[1..n -> Addresses] : n \in 0..MaxList}
Recipients == {Single(a) : a \in Addresses} \cup {Multiple(l) : l \in AddressLists}

NewHandle == [st |-> "new", txFailed |-> FALSE]
Live(h) == h.st \in {"open", "authed"}
FailureModes == {"refused", "disconnected"}
AfterFail(st, mode) == IF mode = "disconnected" THEN "closed" ELSE st

\* The handles something can still reach: self._client, and the handle a
\* suspended stop() is awaiting quit() on.
Referenced(cl, sts) ==
    {h \in {cl} : h # NoClient} \cup {sts[k].h : k \in {j \in 1..Len(sts) : sts[j].pc = "quit"}}
Kept(cn, cl, sts) == [h \in (DOMAIN cn) \cap Referenced(cl, sts) |-> cn[h]]
Lost(cn, cl, sts) == \E h \in (DOMAIN cn) \ Referenced(cl, sts) : Live(cn[h])

NewHist(stopped) ==
    [afterStop |-> stopped, status |-> "queued", sentOn |-> 0, doneMarks |-> 0]
Finish(hs, id, how) == [hs EXCEPT ![id].status = how, ![id].doneMarks = @ + 1]

NoAttempts ==
    [attempts |-> 0, connects |-> 0, loginFails |-> 0, fails |-> 0, sent |-> 0]
Bump(at, f) == [at EXCEPT ![f] = @ + 1]

\* ------------------------------------------------------------------- send
ExpandDedup(to) ==
    IF to.isList
    THEN IF Len(to.list) > 1 /\ to.list[1] = to.list[2] THEN Tail(to.list) ELSE to.list
    ELSE <<to.addr>>
Expand(to) == IF to.isList THEN to.list ELSE <<to.addr>>

NewRequest(id, _to, subject, body) ==
    [id |-> id, to |-> _to, subject |-> subject, body |-> body]

FullAtOne(q) == Len(q) >= 1
Full(q) == FALSE

RECURSIVE PutAllFront(_, _, _, _, _)
PutAllFront(q, _tos, subject, body, id) ==
    IF _tos = <<>> THEN q
    ELSE PutAllFront(<<NewRequest(id, Head(_tos), subject, body)>> \o q,
                     Tail(_tos), subject, body, id + 1)

RECURSIVE PutAll(_, _, _, _, _)
PutAll(q, _tos, subject, body, id) ==
    IF _tos = <<>> THEN q
    ELSE PutAll(Append(q, NewRequest(id, Head(_tos), subject, body)),
                Tail(_tos), subject, body, id + 1)

CanPutAll(q, n) == \A i \in 0..(n - 1) : ~Full(q \o [j \in 1..i |-> NoReq])

Send(to, subject, body) ==
    LET _tos == Expand(to) IN
    /\ Len(reqs) + Len(_tos) <= MaxRequests
    /\ CanPutAll(queue, Len(_tos))
    /\ queue' = PutAll(queue, _tos, subject, body, Len(reqs) + 1)
    /\ unfinished' = unfinished + Len(_tos)
    /\ reqs' = reqs \o [i \in 1..Len(_tos) |-> NewHist(~running)]
    /\ UNCHANGED <<running, client, wpc, retry, cur, conn, created, orphaned, stops, att>>

\* ----------------------------------------------------------------- worker
ConnectNeverReuses(cl) == FALSE
ConnectReuses(cl) == cl # NoClient

QueueGetLast(q) == [item |-> q[Len(q)], rest |-> SubSeq(q, 1, Len(q) - 1)]
QueueGet(q) == [item |-> Head(q), rest |-> Tail(q)]

WhileRunningAlways(r) == TRUE
WhileRunningNever(r) == ~r
WhileRunning(r) == r

ClientKeptAfterSendFail(cl) == cl
ClientAfterSendFail(cl) == NoClient

\* The worker suspends at pc; w holds its variables and what it changed.
Suspend(w, pc) ==
    /\ queue' = w.queue /\ unfinished' = w.unfinished
    /\ retry' = w.retry /\ cur' = w.cur
    /\ client' = w.client
    /\ conn' = Kept(w.conn, w.client, stops)
    /\ orphaned' = (orphaned \/ Lost(w.conn, w.client, stops))
    /\ created' = w.created
    /\ reqs' = w.reqs /\ att' = w.att
    /\ wpc' = pc
    /\ UNCHANGED <<running, stops>>

Now == [queue |-> queue, unfinished |-> unfinished, retry |-> retry, cur |-> cur,
        client |-> client, conn |-> conn, created |-> created, reqs |-> reqs,
        att |-> att]

\* _connect from line 53 to its await of connect(): a new handle is stored in
\* self._client before it is connected.
BeginConnect(w) ==
    Suspend([w EXCEPT !.client = w.created + 1,
                      !.created = @ + 1,
                      !.conn = [h \in DOMAIN w.conn \cup {w.created + 1} |->
                                   IF h = w.created + 1 THEN NewHandle ELSE w.conn[h]],
                      !.att = Bump(@, "connects")],
            "connect")

\* One call of _send_email, up to the first await of _connect.
StartAttempt(w) ==
    IF ConnectReuses(w.client)
    THEN Suspend([w EXCEPT !.att = Bump(@, "attempts")], "noop")
    ELSE BeginConnect([w EXCEPT !.att = Bump(@, "attempts")])

\* The item queue.get() returns, and the first attempt for it.
Dequeue(w) ==
    LET g == QueueGet(w.queue) IN
    StartAttempt([w EXCEPT !.queue = g.rest, !.cur = g.item, !.retry = RetryInit,
                           !.reqs[g.item.id].status = "active",
                           !.att = NoAttempts])

\* The head of the outer loop: the test of self._running, then queue.get().
LoopTop(w) ==
    IF ~WhileRunning(running) THEN Suspend(w, "done")
    ELSE IF w.queue = <<>> THEN Suspend(w, "get")
    ELSE Dequeue(w)

TaskDoneRequeue(w, how) ==
    LoopTop([w EXCEPT !.unfinished = @ - 1, !.reqs = Finish(@, w.cur.id, how),
                      !.queue = IF how = "dropped" THEN Append(@, w.cur) ELSE @])
\* task_done(), then the head of the outer loop again.
TaskDone(w, how) ==
    LoopTop([w EXCEPT !.unfinished = @ - 1, !.reqs = Finish(@, w.cur.id, how)])

AttemptEndRetriesAnyway(w, ok) ==
    IF w.retry - 1 > 0 THEN StartAttempt([w EXCEPT !.retry = @ - 1])
    ELSE TaskDone([w EXCEPT !.retry = @ - 1], IF ok THEN "sent" ELSE "dropped")
\* The inner loop once _send_email has returned ok.
AttemptEnd(w, ok) ==
    IF ok THEN TaskDone(w, "sent")
    ELSE IF w.retry - 1 > 0 THEN StartAttempt([w EXCEPT !.retry = @ - 1])
    ELSE TaskDone([w EXCEPT !.retry = @ - 1], "dropped")

WorkerStart ==
    /\ wpc = "start"
    /\ LoopTop(Now)

WorkerGet ==
    /\ wpc = "get"
    /\ queue # <<>>
    /\ Dequeue(Now)

NoopOk ==
    /\ wpc = "noop"
    /\ Live(conn[client])
    /\ Suspend(Now, "send")

NoopFail(mode) ==
    /\ wpc = "noop"
    /\ BeginConnect([Now EXCEPT !.conn[client].st = AfterFail(@, mode),
                                !.client = NoClient,
                                !.att = Bump(@, "fails")])

ConnectOk ==
    /\ wpc = "connect"
    /\ conn[client].st = "new"
    /\ Suspend([Now EXCEPT !.conn[client].st = "open"], "login")

ConnectFailIgnored ==
    /\ wpc = "connect"
    /\ Suspend([Now EXCEPT !.conn[client].st = "closed",
                           !.att = Bump(@, "fails")], "send")
ConnectFail ==
    /\ wpc = "connect"
    /\ AttemptEnd([Now EXCEPT !.conn[client].st = "closed",
                              !.client = NoClient,
                              !.att = Bump(@, "fails")], FALSE)

LoginOk ==
    /\ wpc = "login"
    /\ conn[client].st = "open"
    /\ Suspend([Now EXCEPT !.conn[client].st = "authed"], "send")

LoginFail(mode) ==
    /\ wpc = "login"
    /\ AttemptEnd([Now EXCEPT !.conn[client].st = AfterFail(@, mode),
                              !.client = NoClient,
                              !.att = Bump(Bump(@, "loginFails"), "fails")], FALSE)

SendOk ==
    /\ wpc = "send"
    /\ conn[client].st = "authed"
    /\ AttemptEnd([Now EXCEPT !.reqs[cur.id].sentOn = client,
                              !.att = Bump(@, "sent")], TRUE)

SendFail(mode) ==
    /\ wpc = "send"
    /\ AttemptEnd([Now EXCEPT !.conn[client].st = AfterFail(@, mode),
                              !.conn[client].txFailed = TRUE,
                              !.client = ClientAfterSendFail(client),
                              !.att = Bump(@, "fails")], FALSE)

\* ------------------------------------------------------------------- stop
StopHasClient(cl) == cl # NoClient

BusyPcs == {"noop", "connect", "login", "send"}
Busy == wpc \in BusyPcs

StopCall ==
    /\ Len(stops) < MaxStops
    /\ running' = FALSE
    /\ stops' = Append(stops,
          IF StopHasClient(client)
          THEN [h |-> client, pc |-> "quit", wasLive |-> Live(conn[client]),
                wasBusy |-> Busy, logouts |-> 1]
          ELSE [h |-> NoClient, pc |-> "returned", wasLive |-> FALSE,
                wasBusy |-> Busy, logouts |-> 0])
    /\ UNCHANGED <<queue, unfinished, client, wpc, retry, cur, conn, created,
                   orphaned, reqs, att>>

\* stop() resumes from its await of quit(): sts is stops once it has.
QuitDone(cn, sts) ==
    /\ stops' = sts
    /\ conn' = Kept(cn, client, sts)
    /\ orphaned' = (orphaned \/ Lost(cn, client, sts))
    /\ UNCHANGED <<queue, unfinished, running, client, wpc, retry, cur, created,
                   reqs, att>>

QuitOk(k) ==
    /\ stops[k].pc = "quit"
    /\ Live(conn[stops[k].h])
    /\ QuitDone([conn EXCEPT ![stops[k].h].st = "closed"],
                [stops EXCEPT ![k].pc = "returned", ![k].h = NoClient])

QuitFail(k, mode) ==
    /\ stops[k].pc = "quit"
    /\ QuitDone([conn EXCEPT ![stops[k].h].st = AfterFail(@, mode)],
                [stops EXCEPT ![k].pc = "raised", ![k].h = NoClient])

\* ---------------------------------------------------------- specification
InitConnected ==
    /\ queue = <<>>
    /\ unfinished = 0
    /\ running = TRUE
    /\ client = 1
    /\ wpc = "start"
    /\ retry = 0
    /\ cur = NoReq
    /\ conn = [h \in {1} |-> [st |-> "authed", txFailed |-> FALSE]]
    /\ created = 1
    /\ orphaned = FALSE
    /\ stops = <<>>
    /\ reqs = <<>>
    /\ att = NoAttempts
Init ==
    /\ queue = <<>>
    /\ unfinished = 0
    /\ running = TRUE
    /\ client = NoClient
    /\ wpc = "start"
    /\ retry = 0
    /\ cur = NoReq
    /\ conn = <<>>
    /\ created = 0
    /\ orphaned = FALSE
    /\ stops = <<>>
    /\ reqs = <<>>
    /\ att = NoAttempts

\* What the worker does with a request does not depend on what it holds, so
\* the callers here pass one address, an empty list or a list of two.
CallerRecipients ==
    {Single("a@x.com"), Multiple(<<>>), Multiple(<<"a@x.com", "b@x.com">>)}
SendAny == \E to \in CallerRecipients : Send(to, "Hi", "<p>hi</p>")
SendRich == \E to \in Recipients, subject \in Subjects, body \in Bodies :
                Send(to, subject, body)
NoopFails == \E mode \in FailureModes : NoopFail(mode)
LoginFails == \E mode \in FailureModes : LoginFail(mode)
SendFails == \E mode \in FailureModes : SendFail(mode)
QuitOks == \E k \in 1..Len(stops) : QuitOk(k)
QuitFails == \E k \in 1..Len(stops), mode \in FailureModes : QuitFail(k, mode)

Next ==
    \/ SendAny
    \/ StopCall
    \/ QuitOks
    \/ QuitFails
    \/ WorkerStart
    \/ WorkerGet
    \/ NoopOk
    \/ NoopFails
    \/ ConnectOk
    \/ ConnectFail
    \/ LoginOk
    \/ LoginFails
    \/ SendOk
    \/ SendFails

Spec == Init /\ [][Next]_vars

\* The steps of the worker task.
WorkerNext ==
    \/ WorkerStart
    \/ WorkerGet
    \/ NoopOk
    \/ NoopFails
    \/ ConnectOk
    \/ ConnectFail
    \/ LoginOk
    \/ LoginFails
    \/ SendOk
    \/ SendFails

\* The dispatcher while stop() is never called.  The event loop runs every
\* task that is ready, and every network operation ends, well or badly: the
\* worker always goes on.
RunningNext == SendAny \/ WorkerNext
RunningSpec == Init /\ [][RunningNext]_vars /\ WF_vars(WorkerNext)

\* The callers alone, with every kind of argument, before the worker has run.
SendSpec == Init /\ [][SendRich]_vars

\* ------------------------------------------------------------------ claims
Finished == {"sent", "dropped"}
IsPrefix(p, q) == Len(p) <= Len(q) /\ \A i \in 1..Len(p) : q[i] = p[i]

\* C1: a request is dropped only after exactly 4 attempts, and when every
\* failure was a refused authentication the relay has then seen exactly 4
\* failed authentications and no message.
RetryBoundFour ==
    (cur.id # 0 /\ reqs[cur.id].status = "dropped") =>
        /\ att.attempts = 4
        /\ (att.fails = att.loginFails => att.loginFails = 4 /\ att.sent = 0)

\* C2: a request enqueued after stop() was called is never taken from the
\* queue: it stays queued, with no attempt made for it.
NoProcessingAfterStop ==
    \A i \in 1..Len(reqs) : reqs[i].afterStop => reqs[i].status = "queued"

\* C3: no call of stop() ends by raising to its caller.
StopNeverRaises ==
    \A k \in 1..Len(stops) : stops[k].pc # "raised"

\* C4: whenever an attempt has begun for a request, every request enqueued
\* before it has been sent or dropped; so at most one request is in progress.
FifoProcessing ==
    \A i, j \in 1..Len(reqs) :
        (i < j /\ reqs[j].status # "queued") => reqs[i].status \in Finished
FifoWitness ==
    /\ Len(reqs) >= 2
    /\ reqs[1].status = "dropped"
    /\ reqs[2].status = "active"
    /\ att.attempts >= 2

\* C5: a call of send() appends one request per address of a list, in list
\* order and without dropping duplicates, or one request for a single
\* address, each with the call's subject and body, behind the unchanged
\* earlier contents of the queue.
Appended(to, subject, body) ==
    LET n == IF to.isList THEN Len(to.list) ELSE 1 IN
    /\ Len(queue') = Len(queue) + n
    /\ \A i \in 1..Len(queue) : queue'[i] = queue[i]
    /\ \A i \in 1..n :
         /\ queue'[Len(queue) + i].to = (IF to.isList THEN to.list[i] ELSE to.addr)
         /\ queue'[Len(queue) + i].subject = subject
         /\ queue'[Len(queue) + i].body = body
SendAppends ==
    [][\A to \in Recipients, subject \in Subjects, body \in Bodies :
          Send(to, subject, body) => Appended(to, subject, body)]_vars
SendAppendsWitness ==
    /\ Len(queue) = 2
    /\ queue[1].to = "b@x.com" /\ queue[2].to = "b@x.com"
    /\ queue[1].subject = "Yo" /\ queue[2].subject = "Yo"
    /\ queue[1].body = queue[2].body

\* C6: stop() leaves the worker where it is; once stopped, a worker that is
\* in the middle of an item takes no other item, leaves the waiting ones in
\* the queue, and exits only when the item is sent or its retries are used up.
StopFinishesCurrentOnly ==
    [][/\ (running /\ ~running') =>
              (wpc' = wpc /\ retry' = retry /\ cur' = cur /\ att' = att)
       /\ (~running /\ wpc \in BusyPcs \cup {"done"}) =>
              /\ cur' = cur
              /\ IsPrefix(queue, queue')
              /\ wpc' \in BusyPcs \cup {"done"}
       /\ (~running /\ Busy /\ wpc' = "done") =>
              /\ reqs'[cur.id].status \in Finished
              /\ reqs'[cur.id].status = "dropped" => retry' = 0]_vars
StopFinishesCurrentWitness ==
    /\ Len(stops) >= 1 /\ stops[1].wasBusy
    /\ wpc = "done"
    /\ reqs[cur.id].status = "dropped"
    /\ \E i \in 1..Len(queue) : ~reqs[queue[i].id].afterStop

\* C7: in every state of the worker and of the connection a call of send()
\* can run to its end: nothing but the bound of this model disables it.
SendAlwaysEnabled ==
    \A to \in CallerRecipients :
        (Len(reqs) + Len(Expand(to)) <= MaxRequests) =>
            ENABLED Send(to, "Hi", "<p>hi</p>")
SendWhileFailingWitness ==
    /\ wpc = "login"
    /\ att.fails >= 2
    /\ Len(queue) >= 1
    /\ orphaned

\* C8: when a request is sent right after the one before it was sent, with
\* no failed operation in between, no connection was opened for it: one
\* attempt, on the handle the one before was sent on.
ConnectionReuse ==
    (/\ cur.id > 1
     /\ reqs[cur.id].status = "sent"
     /\ reqs[cur.id - 1].status = "sent"
     /\ att.fails = 0) =>
        /\ att.connects = 0
        /\ att.attempts = 1
        /\ reqs[cur.id].sentOn = reqs[cur.id - 1].sentOn
ConnectionReuseWitness ==
    /\ cur.id = 2
    /\ reqs[1].status = "sent" /\ reqs[2].status = "sent"
    /\ att.fails = 0
    /\ created = 1

\* C9: a failed transmission discards the handle: the worker goes on with a
\* new, unconnected handle or with none, no handle a transmission failed on
\* is ever self._client again, and a new handle is transmitted on only after
\* connect and then login.
TxFailStep ==
    wpc = "send" /\ wpc' # "send" /\ reqs'[cur.id].status # "sent"
ReconnectAfterSendFailure ==
    [][/\ TxFailStep =>
              \/ /\ wpc' = "connect"
                 /\ client' > client
                 /\ conn'[client'].st = "new"
              \/ /\ wpc' \in {"get", "done"}
                 /\ client' = NoClient
       /\ client' # NoClient => ~conn'[client'].txFailed
       /\ (wpc' = "noop" /\ wpc # "noop") =>
              (client' = client /\ client # NoClient)
       /\ (wpc = "connect" /\ wpc' = "send") => FALSE
       /\ (wpc' = "send" /\ wpc # "send") =>
              (wpc \in {"noop", "login"} /\ client' = client)]_vars
ReconnectWitness ==
    /\ wpc = "connect"
    /\ att.attempts = 2
    /\ att.connects = 1

\* C10: a call of stop() invokes quit() at most once, and only when the
\* connection of the handle was open at the moment of the call.
LogoutOnlyIfOpen ==
    \A k \in 1..Len(stops) :
        /\ stops[k].logouts <= 1
        /\ stops[k].logouts = 1 => stops[k].wasLive

\* C11: a dropped request stays dropped: it is not in the queue, its record
\* never changes again, it was marked done exactly once (the queue's count of
\* unfinished items agrees), and the step that drops it takes the next
\* request when there is one and the worker is still running.
DropStep == cur.id # 0 /\ reqs[cur.id].status = "active" /\ reqs'[cur.id].status = "dropped"
DroppedForGood ==
    [][/\ \A i \in 1..Len(reqs) :
            reqs[i].status = "dropped" =>
                /\ reqs'[i] = reqs[i]
                /\ reqs[i].doneMarks = 1
                /\ \A k \in 1..Len(queue') : queue'[k].id # i
       /\ unfinished' = Cardinality({i \in 1..Len(reqs') : reqs'[i].doneMarks = 0})
       /\ (DropStep /\ running /\ queue # <<>>) =>
              /\ cur' = Head(queue)
              /\ reqs'[cur'.id].status = "active"
              /\ wpc' \in BusyPcs
              /\ att'.attempts = 1]_vars
DroppedThenNextWitness ==
    /\ Len(reqs) >= 2
    /\ running
    /\ reqs[1].status = "dropped" /\ reqs[1].doneMarks = 1
    /\ reqs[2].status = "sent"

\* C12: as long as the worker has taken no request from the queue, there is
\* no handle, no SMTP object was ever created and no connection is open,
\* whatever was enqueued and whether or not the worker has started.
NothingDequeued == \A i \in 1..Len(reqs) : reqs[i].status = "queued"
LazyConnection ==
    NothingDequeued =>
        /\ client = NoClient
        /\ created = 0
        /\ DOMAIN conn = {}
        /\ ~orphaned
LazyConnectionWitness ==
    /\ NothingDequeued
    /\ wpc = "get"
    /\ Len(queue) = 2
    /\ client = NoClient

\* C13: at most one connection to the relay is open at any time, counting
\* the connections of handles the dispatcher has discarded.
AtMostOneLiveConnection ==
    Cardinality({h \in DOMAIN conn : Live(conn[h])}) + (IF orphaned THEN 1 ELSE 0) <= 1

\* C14: no call of stop() has quit() in flight on the handle on which the
\* worker has a probe, connect, login or transmission in flight.
HandleOnlyWorker ==
    \A k \in 1..Len(stops) :
        stops[k].pc = "quit" => ~(Busy /\ stops[k].h = client)

\* C15: the requests taken from the queue so far are the first ones that
\* were enqueued, in that order, and the queue holds the rest, in order; the
\* queue changes only by a send() appending to it or by the worker taking its
\* head, which was never taken before.
QueueIsRest ==
    LET k == Len(reqs) - Len(queue) IN
    /\ k >= 0
    /\ \A i \in 1..Len(queue) : queue[i].id = k + i
    /\ \A i \in 1..Len(reqs) : (reqs[i].status = "queued") <=> (i > k)
QueueRemoval ==
    [][/\ QueueIsRest'
       /\ (queue' # queue) =>
              \/ /\ Len(reqs') > Len(reqs)
                 /\ IsPrefix(queue, queue')
                 /\ cur' = cur
              \/ /\ queue # <<>>
                 /\ queue' = Tail(queue)
                 /\ cur' = Head(queue)
                 /\ reqs[Head(queue).id].status = "queued"
                 /\ reqs'[Head(queue).id].status = "active"
                 /\ Len(reqs') = Len(reqs)
                 /\ wpc' \in BusyPcs]_vars
QueueRemovalWitness ==
    /\ Len(reqs) = 2
    /\ reqs[1].status = "sent"
    /\ reqs[2].status = "active"
    /\ queue = <<>>
    /\ cur.id = 2

\* C16: a transmission starts only from a probe that succeeded on the handle
\* or from a login that succeeded on it; a failed connect or login removes
\* the handle, transmits nothing, and costs the item one of its retries: the
\* worker retries on a new handle, or drops the item and stays alive.
AcquireFailStep ==
    /\ wpc \in {"connect", "login"}
    /\ wpc' # "send"
    /\ ~(wpc' = wpc /\ client' = client)
    /\ ~(wpc = "connect" /\ wpc' = "login")
AcquireBeforeTransmit ==
    [][/\ (wpc' = "send" /\ wpc # "send") =>
              /\ client' = client
              /\ \/ wpc = "noop" /\ Live(conn[client])
                 \/ wpc = "login" /\ conn[client].st = "open"
                                  /\ conn'[client].st = "authed"
       /\ AcquireFailStep =>
              /\ client' # client
              /\ client' = NoClient \/ conn'[client'].st = "new"
              /\ reqs'[cur.id].status # "sent"
              /\ retry' = retry - 1 \/ (cur' # cur /\ retry = 1)
              /\ \/ /\ cur' = cur /\ retry' > 0
                    /\ wpc' = "connect"
                    /\ att'.attempts = att.attempts + 1
                    /\ att'.sent = att.sent
                 \/ /\ retry = 1
                    /\ reqs'[cur.id].status = "dropped"
                    /\ wpc' \in {"connect", "get", "done"}
                    /\ wpc' = "done" => ~running]_vars
AcquireFailWitness ==
    /\ wpc = "get"
    /\ client = NoClient
    /\ cur.id # 0 /\ reqs[cur.id].status = "dropped"
    /\ att.loginFails >= 1
    /\ att.fails = att.attempts
    /\ att.sent = 0

\* C17: send_message succeeds at most once for the item the worker holds,
\* exactly when the item counts as sent; a sent request's record never
\* changes again, it is never back in the queue, and no further attempt is
\* made for it.
AtMostOnceDelivery ==
    [][/\ att'.sent <= 1
       /\ cur'.id # 0 => (att'.sent = 1 <=> reqs'[cur'.id].status = "sent")
       /\ \A i \in 1..Len(reqs) :
            reqs[i].status = "sent" =>
                /\ reqs'[i] = reqs[i]
                /\ \A k \in 1..Len(queue') : queue'[k].id # i
                /\ (cur.id = i /\ cur' = cur) => att' = att]_vars
SentOnRetryWitness ==
    /\ wpc = "get"
    /\ cur.id # 0 /\ reqs[cur.id].status = "sent"
    /\ att.attempts = 3
    /\ att.sent = 1

\* C18: once a call of stop() that found the worker in the middle of an
\* item and performed its logout has returned, and the worker has finished
\* the item and exited, no connection to the relay is open: neither the one
\* of self._client nor one of a discarded handle.
NoLeakAtShutdown ==
    (/\ wpc = "done"
     /\ \E k \in 1..Len(stops) :
          stops[k].pc = "returned" /\ stops[k].wasBusy /\ stops[k].logouts = 1) =>
        /\ \A h \in DOMAIN conn : ~Live(conn[h])
        /\ ~orphaned

\* C19: once stop() has been called the worker exits: until it has, it always
\* has a step to take, whether or not anything is enqueued any more.
StoppedWorkerExits ==
    ~running => (wpc = "done" \/ ENABLED WorkerNext)

\* C20: when stop() is never called, every request that was enqueued is in
\* the end sent or dropped and marked done once.
Resolved(i) ==
    i <= Len(reqs) /\ reqs[i].status \in Finished /\ reqs[i].doneMarks = 1
ProgressWhileRunning ==
    \A i \in 1..MaxRequests :
        [](Len(reqs) >= i => <>Resolved(i))
ProgressWitness ==
    /\ running
    /\ Len(reqs) = 2
    /\ reqs[1].status = "sent" /\ reqs[2].status = "dropped"
    /\ unfinished = 0
    /\ queue = <<>>
    /\ wpc = "get"

====
